---- MODULE Spec2Model ----
(***************************************************************************)
(* The asset batch-upload pipeline of ic-asset                             *)
(* (src/canisters/frontend/ic-asset/src/batch_upload/plumbing.rs):         *)
(* make_project_assets fans out one make_project_asset future per asset    *)
(* descriptor, each of which takes file permits, loads its content, makes  *)
(* its encodings, decides per encoding whether it is already in place and  *)
(* otherwise uploads it in chunks through create_chunk.                    *)
(*                                                                         *)
(* Byte strings are not enumerated byte by byte (a chunk holds 1,900,000   *)
(* of them). A byte string is named by where its bytes come from: the      *)
(* bytes [lo, hi) of the object `of`. Slicing and concatenation are        *)
(* computed on these names.                                                *)
(***************************************************************************)
EXTENDS Integers, Sequences, FiniteSets, TLC

\* ------------------------------------------------------------------------
\* Program constants
\* ------------------------------------------------------------------------

CONTENT_ENCODING_IDENTITY == "identity"

MAX_COST_SINGLE_FILE_MB == 45

MAX_CHUNK_SIZE == 1900000

\* ------------------------------------------------------------------------
\* Bounds of the model
\* ------------------------------------------------------------------------

\* Most asset descriptors in one run.
MaxAssets == 2

\* Capacity of the file semaphore and of the network semaphore in the runs.
FileCapacity == 3
NetCapacity == 2

\* Most encodings one AssetDetails of a drawn snapshot lists.
MaxListed == 2

\* Largest whole number of megabytes among the file sizes the cost
\* computation is tried on.
MaxCostMb == 47

\* ------------------------------------------------------------------------
\* Values
\* ------------------------------------------------------------------------

Max(a, b) == IF a >= b THEN a ELSE b

Min(a, b) == IF a <= b THEN a ELSE b

\* Option<T>: None, Some(x)
None == <<>>

Some(x) == <<x>>

\* mime::Mime, with the parts applicable_encoders and to_string read.
Mime(t, s) == [type |-> t, subtype |-> s]

MimeToString(m) == m.type \o "/" \o m.subtype

TEXT_CSS == Mime("text", "css")
TEXT_HTML == Mime("text", "html")
APPLICATION_JAVASCRIPT == Mime("application", "javascript")
IMAGE_PNG == Mime("image", "png")

\* The bytes [lo, hi) of the byte string named `of`.
Bytes(of, lo, hi) == [of |-> of, lo |-> lo, hi |-> hi]

\* vec![] : the byte string of length 0. Every empty slice is this string.
EmptyBytes == Bytes("", 0, 0)

BytesLen(b) == b.hi - b.lo

Norm(b) == IF b.hi = b.lo THEN EmptyBytes ELSE b

\* What is neither empty nor a run of consecutive bytes of one object is
\* not a byte string the pipeline ever handles: Garbage.
Garbage == Bytes("garbage", 0, -1)

\* Concatenation of two byte strings.
Concat(b1, b2) ==
    IF b1 = Garbage \/ b2 = Garbage THEN Garbage
    ELSE IF BytesLen(b1) = 0 THEN Norm(b2)
    ELSE IF BytesLen(b2) = 0 THEN Norm(b1)
    ELSE IF b1.of = b2.of /\ b1.hi = b2.lo THEN Bytes(b1.of, b1.lo, b2.hi)
    ELSE Garbage

RECURSIVE ConcatAll(_)
ConcatAll(bs) ==
    IF bs = <<>> THEN EmptyBytes
    ELSE Concat(ConcatAll(SubSeq(bs, 1, Len(bs) - 1)), bs[Len(bs)])

\* Content: data and media type.
Content(data, media_type) == [data |-> data, media_type |-> media_type]

\* Content::sha256: the digest of the data. Collision-free: one digest per
\* byte string.
Sha256(data) == [sha256 |-> Norm(data)]

\* ContentEncoder and its Display.
Gzip == "gzip"

EncoderToString(encoder) == encoder

\* ------------------------------------------------------------------------
\* Pure functions of plumbing.rs
\* ------------------------------------------------------------------------

\* applicable_encoders
\* (as if no media type qualified)
ApplicableEncodersNone(media_type) == <<>>

\* (as if every media type qualified)
ApplicableEncodersAll(media_type) == <<Gzip>>

ApplicableEncoders(media_type) ==
    IF \/ media_type.type = "text"
       \/ media_type.subtype = "javascript"
       \/ media_type.subtype = "html"
    THEN <<Gzip>>
    ELSE <<>>

\* content_encoding_descriptive_suffix
ContentEncodingDescriptiveSuffix(content_encoding) ==
    IF content_encoding = CONTENT_ENCODING_IDENTITY THEN ""
    ELSE " (" \o content_encoding \o ")"

\* make_project_asset, the permits it asks the file semaphore for.
\* (as if the cost had no ceiling)
PermitsUncapped(file_size) ==
    Max(1, (file_size + 999999) \div 1000000)

\* (as if the megabytes were rounded down)
PermitsFloor(file_size) ==
    Max(1, Min(file_size \div 1000000, MAX_COST_SINGLE_FILE_MB))

Permits(file_size) ==
    Max(1, Min((file_size + 999999) \div 1000000, MAX_COST_SINGLE_FILE_MB))

\* Iterator::find over the encodings of an AssetDetails: the index of the
\* first one with the label, 0 when there is none.
RECURSIVE FindFrom(_, _, _)
FindFrom(encodings, content_encoding, i) ==
    IF i > Len(encodings) THEN 0
    ELSE IF encodings[i].content_encoding = content_encoding THEN i
    ELSE FindFrom(encodings, content_encoding, i + 1)

\* (as if the last one with the label were taken)
RECURSIVE FindLastFrom(_, _, _)
FindLastFrom(encodings, content_encoding, i) ==
    IF i < 1 THEN 0
    ELSE IF encodings[i].content_encoding = content_encoding THEN i
    ELSE FindLastFrom(encodings, content_encoding, i - 1)

FindEncoding(encodings, content_encoding) ==
    FindFrom(encodings, content_encoding, 1)

\* make_project_asset_encoding, the already_in_place it computes.
\* (as if the content type were not compared)
AlreadyInPlaceAnyType(canister_assets, key, media_type, content_encoding, sha256) ==
    IF key \in DOMAIN canister_assets
    THEN LET canister_asset == canister_assets[key]
             i == FindEncoding(canister_asset.encodings, content_encoding)
         IN  IF i # 0 /\ canister_asset.encodings[i].sha256 # None
             THEN canister_asset.encodings[i].sha256 = Some(sha256)
             ELSE FALSE
    ELSE FALSE

\* (as if the last listed encoding with the label decided)
AlreadyInPlaceLast(canister_assets, key, media_type, content_encoding, sha256) ==
    IF key \in DOMAIN canister_assets
    THEN LET canister_asset == canister_assets[key]
             i == FindLastFrom(canister_asset.encodings, content_encoding,
                               Len(canister_asset.encodings))
         IN  IF canister_asset.content_type # MimeToString(media_type)
             THEN FALSE
             ELSE IF i # 0 /\ canister_asset.encodings[i].sha256 # None
                  THEN canister_asset.encodings[i].sha256 = Some(sha256)
                  ELSE FALSE
    ELSE FALSE

AlreadyInPlace(canister_assets, key, media_type, content_encoding, sha256) ==
    IF key \in DOMAIN canister_assets
    THEN LET canister_asset == canister_assets[key]
             i == FindEncoding(canister_asset.encodings, content_encoding)
         IN  IF canister_asset.content_type # MimeToString(media_type)
             THEN FALSE
             ELSE IF i # 0 /\ canister_asset.encodings[i].sha256 # None
                  THEN canister_asset.encodings[i].sha256 = Some(sha256)
                  ELSE FALSE
    ELSE FALSE

\* slice::chunks(MAX_CHUNK_SIZE): consecutive slices, each MAX_CHUNK_SIZE
\* long but the last, which holds what is left; none of an empty slice.
ChunksLen(len, chunk_size) ==
    len \div chunk_size + (IF len % chunk_size > 0 THEN 1 ELSE 0)

\* (as if each slice ran one byte into the next)
DataChunksOverlap(data) ==
    [i \in 1..ChunksLen(BytesLen(data), MAX_CHUNK_SIZE) |->
        Bytes(data.of,
              data.lo + (i - 1) * MAX_CHUNK_SIZE,
              Min(data.lo + i * MAX_CHUNK_SIZE + 1, data.hi))]

\* (as if what is left after the last full slice were dropped)
DataChunksFloor(data) ==
    [i \in 1..(BytesLen(data) \div MAX_CHUNK_SIZE) |->
        Bytes(data.of,
              data.lo + (i - 1) * MAX_CHUNK_SIZE,
              Min(data.lo + i * MAX_CHUNK_SIZE, data.hi))]

DataChunks(data) ==
    [i \in 1..ChunksLen(BytesLen(data), MAX_CHUNK_SIZE) |->
        Bytes(data.of,
              data.lo + (i - 1) * MAX_CHUNK_SIZE,
              Min(data.lo + i * MAX_CHUNK_SIZE, data.hi))]

\* upload_content_chunks: the payloads it hands to create_chunk, in order.
\* (as if an empty payload had no case of its own)
ChunkPayloadsNoEmpty(data) == DataChunks(data)

ChunkPayloads(data) ==
    IF BytesLen(data) = 0 THEN <<EmptyBytes>> ELSE DataChunks(data)

\* try_join_all over the create_chunk futures of one encoding: the results
\* by position, whatever the order the calls completed in.
\* (as if the results were collected as the calls complete: the canister
\* numbers the chunks in that order)
TryJoinAllAsCompleted(calls) ==
    LET ids == {calls[j].chunk_id : j \in DOMAIN calls}
        Rank(x) == Cardinality({y \in ids : y <= x})
    IN  [j \in DOMAIN calls |-> CHOOSE x \in ids : Rank(x) = j]

TryJoinAll(calls) == [j \in DOMAIN calls |-> calls[j].chunk_id]

\* ------------------------------------------------------------------------
\* Collaborators whose code is outside plumbing.rs
\* ------------------------------------------------------------------------

\* Content::load resolves the media type from the path.
MediaTypeOf(source) ==
    CASE source = "a.css" -> TEXT_CSS
      [] source = "b.png" -> IMAGE_PNG
      [] source = "c.js" -> APPLICATION_JAVASCRIPT
      [] OTHER -> TEXT_HTML

\* The bytes of the file at `source`, `size` bytes long.
FileData(source, size) == Bytes(source, 0, size)

\* Content::encode: the bytes the encoder makes of the file, `len` long.
EncodedData(source, encoder, len) ==
    Bytes(source \o "." \o EncoderToString(encoder), 0, len)

KeyOf(source) == "/" \o source

\* ------------------------------------------------------------------------
\* State
\* ------------------------------------------------------------------------

VARIABLES
    chunk_upload_target,  \* TRUE: Some(target); FALSE: None (dry run)
    asset_descriptors,    \* the descriptors handed to make_project_assets
    files,                \* source -> the file there: size, and the length
                          \* the encoder makes of it
    canister_assets,      \* key -> AssetDetails (the remote snapshot)
    semaphores,           \* file and create_chunk: capacity, permits left
    tasks,                \* one make_project_asset future per descriptor
    canister,             \* the remote store: the chunks of the batch,
                          \* and how many create_chunk calls it was sent
    calls_issued,         \* every create_chunk call issued: who and what
    run,                  \* what make_project_assets returned, if it has
    probe                 \* a pure function applied to drawn arguments

vars == <<chunk_upload_target, asset_descriptors, files, canister_assets,
          semaphores, tasks, canister, calls_issued, run, probe>>

inputs == <<chunk_upload_target, asset_descriptors, files, canister_assets>>

NoProbe == [fn |-> "none"]

Assets == DOMAIN asset_descriptors

\* A future not yet polled.
NewTask ==
    [pc |-> "new", file_size |-> 0, permits |-> 0, held |-> 0,
     content |-> None, encodings |-> <<>>, result |-> None, error |-> ""]

NewEncoding(encoder) ==
    [pc |-> "new", encoder |-> encoder, content_encoding |-> "",
     data |-> EmptyBytes, sha256 |-> None, already_in_place |-> FALSE,
     uploaded |-> FALSE, calls |-> <<>>, chunk_ids |-> <<>>]

NewCall(payload) == [pc |-> "wait", payload |-> payload, chunk_id |-> 0]

Semaphore(capacity) == [capacity |-> capacity, permits |-> capacity]

\* Semaphores::new
SemaphoresNew(file_capacity, net_capacity) ==
    [file |-> Semaphore(file_capacity), create_chunk |-> Semaphore(net_capacity)]

\* ------------------------------------------------------------------------
\* Counting
\* ------------------------------------------------------------------------

RECURSIVE SumSeq(_)
SumSeq(s) == IF s = <<>> THEN 0 ELSE s[1] + SumSeq(Tail(s))

CallsIn(t, state) ==
    SumSeq([e \in DOMAIN t.encodings |->
        Cardinality({i \in DOMAIN t.encodings[e].calls :
                        t.encodings[e].calls[i].pc = state})])

InFlight == SumSeq([a \in Assets |-> CallsIn(tasks[a], "flight")])

FilePermitsHeld == SumSeq([a \in Assets |-> tasks[a].held])

\* ------------------------------------------------------------------------
\* Failure: the first Err ends the run
\* ------------------------------------------------------------------------

\* A future dropped before it completed: its locals are dropped with it,
\* the _releaser among them, so the permits it held go back; so are its
\* create_chunk futures, each with the network permit it held.
\* (as if a dropped future kept its permits)
DropTaskKeepPermits(t) ==
    IF t.pc \in {"done", "failed"} THEN t
    ELSE [NewTask EXCEPT !.pc = "dropped", !.held = t.held]

\* (as if a future the join drops were left as it is)
DropTaskNotDropped(t) == t

DropTask(t) ==
    IF t.pc \in {"done", "failed"} THEN t
    ELSE [NewTask EXCEPT !.pc = "dropped"]

\* The `?` of task a at `stage`: the Err goes up through every try_join_all
\* to make_project_assets, which returns it; every other future is dropped.
\* What the drop took back is kept with the Err.
\* (as if a failed upload were tried again: the calls of the task's
\* encodings under upload are made anew)
FailRetriesUpload(a, stage) ==
    IF stage = "create_chunk"
    THEN /\ tasks' = [tasks EXCEPT ![a].encodings =
                [e \in DOMAIN @ |->
                    IF @[e].pc = "upload"
                    THEN [@[e] EXCEPT !.calls =
                             [i \in DOMAIN @ |-> NewCall(@[i].payload)]]
                    ELSE @[e]]]
         /\ semaphores' =
              [semaphores EXCEPT
                 !.create_chunk.permits = @ + CallsIn(tasks[a], "flight")]
         /\ run' = run
    ELSE /\ tasks' = [b \in Assets |->
                         IF b = a
                         THEN [DropTask(tasks[a]) EXCEPT !.pc = "failed",
                                                         !.error = stage]
                         ELSE DropTask(tasks[b])]
         /\ semaphores' =
              [semaphores EXCEPT
                 !.file.permits = semaphores.file.capacity,
                 !.create_chunk.permits = semaphores.create_chunk.capacity]
         /\ run' = [pc |-> "err", error |-> stage,
                    key |-> asset_descriptors[a].key,
                    others_holding |->
                        Cardinality({b \in Assets \ {a} : tasks[b].held > 0}),
                    calls_dropped |-> InFlight]

\* (as if the Err stayed with its task and the others went on)
FailIsolated(a, stage) ==
    /\ tasks' = [tasks EXCEPT ![a] = [DropTask(tasks[a]) EXCEPT
                                         !.pc = "failed", !.error = stage]]
    /\ semaphores' =
         [semaphores EXCEPT
            !.file.permits = @ + tasks[a].held,
            !.create_chunk.permits = @ + CallsIn(tasks[a], "flight")]
    /\ run' = run

Fail(a, stage) ==
    /\ tasks' = [b \in Assets |->
                    IF b = a
                    THEN [DropTask(tasks[a]) EXCEPT !.pc = "failed",
                                                    !.error = stage]
                    ELSE DropTask(tasks[b])]
    /\ semaphores' =
         [semaphores EXCEPT
            !.file.permits = @ + FilePermitsHeld
                               - SumSeq([b \in Assets |-> tasks'[b].held]),
            !.create_chunk.permits = @ + InFlight]
    /\ run' = [pc |-> "err", error |-> stage,
               key |-> asset_descriptors[a].key,
               others_holding |->
                   Cardinality({b \in Assets \ {a} : tasks[b].held > 0}),
               calls_dropped |-> InFlight]

\* ------------------------------------------------------------------------
\* make_project_asset
\* ------------------------------------------------------------------------

\* std::fs::metadata(source)?.len() and the permits computed from it.
StartAsset(a) ==
    /\ run.pc = "running"
    /\ tasks[a].pc = "new"
    /\ \E metadata_ok \in BOOLEAN :
         IF metadata_ok
         THEN LET file_size == files[asset_descriptors[a].source].size IN
              /\ tasks' = [tasks EXCEPT ![a].pc = "acquire",
                                        ![a].file_size = file_size,
                                        ![a].permits = Permits(file_size)]
              /\ UNCHANGED <<semaphores, run>>
         ELSE Fail(a, "metadata")
    /\ UNCHANGED <<inputs, canister, calls_issued, probe>>

\* let _releaser = semaphores.file.acquire(permits).await
\* (as if the permits were taken without waiting for them)
AcquireFileNoWait(a) ==
    /\ run.pc = "running"
    /\ tasks[a].pc = "acquire"
    /\ semaphores' = [semaphores EXCEPT !.file.permits = @ - tasks[a].permits]
    /\ tasks' = [tasks EXCEPT ![a].pc = "load", ![a].held = tasks[a].permits]
    /\ UNCHANGED <<inputs, canister, calls_issued, run, probe>>

\* (as if the releaser were dropped where it is made: `let _ =`)
AcquireFileDroppedAtOnce(a) ==
    /\ run.pc = "running"
    /\ tasks[a].pc = "acquire"
    /\ semaphores.file.permits >= tasks[a].permits
    /\ tasks' = [tasks EXCEPT ![a].pc = "load"]
    /\ UNCHANGED <<inputs, semaphores, canister, calls_issued, run, probe>>

AcquireFile(a) ==
    /\ run.pc = "running"
    /\ tasks[a].pc = "acquire"
    /\ semaphores.file.permits >= tasks[a].permits
    /\ semaphores' = [semaphores EXCEPT !.file.permits = @ - tasks[a].permits]
    /\ tasks' = [tasks EXCEPT ![a].pc = "load", ![a].held = tasks[a].permits]
    /\ UNCHANGED <<inputs, canister, calls_issued, run, probe>>

\* make_encodings: encoders = [None] ++ applicable_encoders(media_type)
Encoders(media_type) ==
    <<None>> \o [i \in DOMAIN ApplicableEncoders(media_type) |->
                    Some(ApplicableEncoders(media_type)[i])]

\* Content::load(source)?, then the make_encoding futures are made.
LoadContent(a) ==
    /\ run.pc = "running"
    /\ tasks[a].pc = "load"
    /\ \E load_ok \in BOOLEAN :
         IF load_ok
         THEN LET source == asset_descriptors[a].source
                  content == Content(FileData(source, files[source].size),
                                     MediaTypeOf(source))
                  encoders == Encoders(content.media_type)
              IN  /\ tasks' = [tasks EXCEPT
                        ![a].pc = "encodings",
                        ![a].content = Some(content),
                        ![a].encodings = [e \in DOMAIN encoders |->
                                             NewEncoding(encoders[e])]]
                  /\ UNCHANGED <<semaphores, run>>
         ELSE Fail(a, "load")
    /\ UNCHANGED <<inputs, canister, calls_issued, probe>>

\* ------------------------------------------------------------------------
\* make_encoding, make_project_asset_encoding
\* ------------------------------------------------------------------------

\* make_encoding keeps an encoded variant only when it is shorter.
\* (as if a tie were kept too)
EncodingAcceptedOrEqual(encoded_len, content_len) == encoded_len <= content_len

EncodingAccepted(encoded_len, content_len) == encoded_len < content_len

\* make_project_asset_encoding uploads when the encoding is not already in
\* place and there is a target.
\* (as if already_in_place were not looked at)
NeedsUploadAlways(already_in_place, target) == target

\* (as if the upload did not depend on there being a target)
NeedsUploadNoTarget(already_in_place, target) == ~already_in_place

NeedsUpload(already_in_place, target) == ~already_in_place /\ target

\* make_project_asset_encoding up to the create_chunk futures of
\* upload_content_chunks: the encoding future after it. A try_join_all of
\* no futures is ready at once.
\* (as if the snapshot were consulted only when there is a target)
MakeProjectAssetEncodingDryNew(enc, key, media_type, data, content_encoding) ==
    LET sha256 == Sha256(data)
        already_in_place ==
            /\ chunk_upload_target
            /\ AlreadyInPlace(canister_assets, key, media_type,
                              content_encoding, sha256)
        upload == NeedsUpload(already_in_place, chunk_upload_target)
        payloads == ChunkPayloads(data)
    IN  [enc EXCEPT
            !.content_encoding = content_encoding,
            !.data = data,
            !.sha256 = Some(sha256),
            !.already_in_place = already_in_place,
            !.uploaded = upload,
            !.pc = IF upload /\ payloads # <<>> THEN "upload" ELSE "done",
            !.calls = IF upload
                      THEN [i \in DOMAIN payloads |-> NewCall(payloads[i])]
                      ELSE <<>>]

MakeProjectAssetEncoding(enc, key, media_type, data, content_encoding) ==
    LET sha256 == Sha256(data)
        already_in_place ==
            AlreadyInPlace(canister_assets, key, media_type,
                           content_encoding, sha256)
        upload == NeedsUpload(already_in_place, chunk_upload_target)
        payloads == ChunkPayloads(data)
    IN  [enc EXCEPT
            !.content_encoding = content_encoding,
            !.data = data,
            !.sha256 = Some(sha256),
            !.already_in_place = already_in_place,
            !.uploaded = upload,
            !.pc = IF upload /\ payloads # <<>> THEN "upload" ELSE "done",
            !.calls = IF upload
                      THEN [i \in DOMAIN payloads |-> NewCall(payloads[i])]
                      ELSE <<>>]

MakeEncoding(a, e) ==
    /\ run.pc = "running"
    /\ tasks[a].pc = "encodings"
    /\ tasks[a].encodings[e].pc = "new"
    /\ LET enc == tasks[a].encodings[e]
           source == asset_descriptors[a].source
           key == asset_descriptors[a].key
           content == tasks[a].content[1]
       IN  IF enc.encoder = None
           THEN /\ tasks' = [tasks EXCEPT ![a].encodings[e] =
                                MakeProjectAssetEncoding(
                                    enc, key, content.media_type, content.data,
                                    CONTENT_ENCODING_IDENTITY)]
                /\ UNCHANGED <<semaphores, run>>
           ELSE \E encode_ok \in BOOLEAN :
                  IF encode_ok
                  THEN LET encoder == enc.encoder[1]
                           encoded ==
                               Content(EncodedData(source, encoder,
                                                   files[source].encoded_len),
                                       content.media_type)
                       IN  /\ tasks' = [tasks EXCEPT ![a].encodings[e] =
                                 IF EncodingAccepted(BytesLen(encoded.data),
                                                     BytesLen(content.data))
                                 THEN MakeProjectAssetEncoding(
                                          enc, key, encoded.media_type,
                                          encoded.data,
                                          EncoderToString(encoder))
                                 ELSE [enc EXCEPT !.pc = "none"]]
                           /\ UNCHANGED <<semaphores, run>>
                  ELSE Fail(a, "encode")
    /\ UNCHANGED <<inputs, canister, calls_issued, probe>>

\* ------------------------------------------------------------------------
\* create_chunk
\* ------------------------------------------------------------------------

\* create_chunk takes one permit of the network semaphore and issues the
\* call to the canister.
\* (as if the call were issued without a permit)
CreateChunkCallNoPermit(a, e, i) ==
    /\ run.pc = "running"
    /\ tasks[a].encodings[e].calls[i].pc = "wait"
    /\ tasks' = [tasks EXCEPT ![a].encodings[e].calls[i].pc = "flight"]
    /\ calls_issued' = calls_issued \cup
          {[asset |-> a,
            content_encoding |-> tasks[a].encodings[e].content_encoding,
            index |-> i,
            payload |-> tasks[a].encodings[e].calls[i].payload]}
    /\ canister' = [canister EXCEPT !.calls = @ + 1]
    /\ UNCHANGED <<inputs, semaphores, run, probe>>

CreateChunkCall(a, e, i) ==
    /\ run.pc = "running"
    /\ tasks[a].encodings[e].calls[i].pc = "wait"
    /\ semaphores.create_chunk.permits >= 1
    /\ semaphores' = [semaphores EXCEPT !.create_chunk.permits = @ - 1]
    /\ tasks' = [tasks EXCEPT ![a].encodings[e].calls[i].pc = "flight"]
    /\ calls_issued' = calls_issued \cup
          {[asset |-> a,
            content_encoding |-> tasks[a].encodings[e].content_encoding,
            index |-> i,
            payload |-> tasks[a].encodings[e].calls[i].payload]}
    /\ canister' = [canister EXCEPT !.calls = @ + 1]
    /\ UNCHANGED <<inputs, run, probe>>

\* The call returns: the canister has stored the chunk and names it, or the
\* call failed. Either way the permit goes back. With the last chunk's
\* identifier the try_join_all of upload_content_chunks is ready.
CreateChunkReturn(a, e, i) ==
    /\ run.pc = "running"
    /\ tasks[a].encodings[e].calls[i].pc = "flight"
    /\ \E call_ok \in BOOLEAN :
         IF call_ok
         THEN LET chunk_id == Len(canister.chunks) + 1
                  calls == [tasks[a].encodings[e].calls EXCEPT
                               ![i].pc = "ok", ![i].chunk_id = chunk_id]
                  all_ok == \A j \in DOMAIN calls : calls[j].pc = "ok"
              IN  /\ canister' = [canister EXCEPT !.chunks =
                        Append(@, tasks[a].encodings[e].calls[i].payload)]
                  /\ tasks' = [tasks EXCEPT
                        ![a].encodings[e].calls = calls,
                        ![a].encodings[e].pc =
                            IF all_ok THEN "done" ELSE @,
                        ![a].encodings[e].chunk_ids =
                            IF all_ok THEN TryJoinAll(calls) ELSE @]
                  /\ semaphores' =
                        [semaphores EXCEPT !.create_chunk.permits = @ + 1]
                  /\ UNCHANGED run
         ELSE /\ Fail(a, "create_chunk")
              /\ UNCHANGED canister
    /\ UNCHANGED <<inputs, calls_issued, probe>>

\* ------------------------------------------------------------------------
\* The joins
\* ------------------------------------------------------------------------

ProjectAssetEncoding(enc) ==
    [chunk_ids |-> enc.chunk_ids, sha256 |-> enc.sha256[1],
     already_in_place |-> enc.already_in_place]

\* make_encodings after its try_join_all: the flattened results inserted
\* in order into a map by label.
EncodingsMap(encodings) ==
    LET kept == {e \in DOMAIN encodings : encodings[e].pc = "done"}
        labels == {encodings[e].content_encoding : e \in kept}
        Last(l) == CHOOSE e \in kept :
                      /\ encodings[e].content_encoding = l
                      /\ \A f \in kept : encodings[f].content_encoding = l
                                            => f <= e
    IN  [l \in labels |-> ProjectAssetEncoding(encodings[Last(l)])]

ProjectAsset(a) ==
    [asset_descriptor |-> asset_descriptors[a],
     media_type |-> tasks[a].content[1].media_type,
     encodings |-> EncodingsMap(tasks[a].encodings)]

\* Every make_encoding future is ready: make_project_asset returns its
\* ProjectAsset, and _releaser is dropped.
\* (as if the permits stayed with the returned asset)
FinishAssetKeepPermits(a) ==
    /\ run.pc = "running"
    /\ tasks[a].pc = "encodings"
    /\ \A e \in DOMAIN tasks[a].encodings :
          tasks[a].encodings[e].pc \in {"done", "none"}
    /\ tasks' = [tasks EXCEPT ![a].pc = "done",
                              ![a].result = Some(ProjectAsset(a))]
    /\ UNCHANGED <<inputs, semaphores, canister, calls_issued, run, probe>>

FinishAsset(a) ==
    /\ run.pc = "running"
    /\ tasks[a].pc = "encodings"
    /\ \A e \in DOMAIN tasks[a].encodings :
          tasks[a].encodings[e].pc \in {"done", "none"}
    /\ tasks' = [tasks EXCEPT ![a].pc = "done", ![a].held = 0,
                              ![a].result = Some(ProjectAsset(a))]
    /\ semaphores' = [semaphores EXCEPT !.file.permits = @ + tasks[a].held]
    /\ UNCHANGED <<inputs, canister, calls_issued, run, probe>>

\* make_project_assets after its try_join_all: the ProjectAssets inserted
\* in order into a map by key.
\* (as if the loop over the ProjectAssets missed the first)
AssetsMapSkipsFirst ==
    LET rest == Assets \ {1}
        keys == {asset_descriptors[a].key : a \in rest}
        Last(k) == CHOOSE a \in rest :
                      /\ asset_descriptors[a].key = k
                      /\ \A b \in rest : asset_descriptors[b].key = k
                                            => b <= a
    IN  [k \in keys |-> tasks[Last(k)].result[1]]

AssetsMap ==
    LET keys == {asset_descriptors[a].key : a \in Assets}
        Last(k) == CHOOSE a \in Assets :
                      /\ asset_descriptors[a].key = k
                      /\ \A b \in Assets : asset_descriptors[b].key = k
                                              => b <= a
    IN  [k \in keys |-> tasks[Last(k)].result[1]]

FinishRun ==
    /\ run.pc = "running"
    /\ \A a \in Assets : tasks[a].pc = "done"
    /\ run' = [pc |-> "ok", assets |-> AssetsMap]
    /\ UNCHANGED <<inputs, semaphores, tasks, canister, calls_issued, probe>>

\* ------------------------------------------------------------------------
\* Inputs
\* ------------------------------------------------------------------------

Sources == <<"a.css", "b.png", "c.js", "d.html">>

Descriptor(source) == [source |-> source, key |-> KeyOf(source)]

\* The descriptor lists over the first n sources, at most `most` long, in
\* the order of Sources and without repetition.
RECURSIVE Sublists(_, _)
Sublists(n, most) ==
    IF n = 0 THEN {<<>>}
    ELSE LET shorter == Sublists(n - 1, most) IN
         shorter \cup {Append(l, Descriptor(Sources[n])) :
                          l \in {x \in shorter : Len(x) < most}}

SourcesOf(descriptors) == {descriptors[a].source : a \in DOMAIN descriptors}

\* The lengths the encoder may make of a file: shorter, the same, longer.
EncodedLens(source, size) ==
    IF ApplicableEncoders(MediaTypeOf(source)) = <<>> THEN {0}
    ELSE {size \div 2, size, size + 18}

\* For the runs of several assets: shorter, the same.
RunEncodedLens(source, size) ==
    IF ApplicableEncoders(MediaTypeOf(source)) = <<>> THEN {0}
    ELSE {size \div 2, size}

File(size, encoded_len) == [size |-> size, encoded_len |-> encoded_len]

FileChoices(source, sizes, Lens(_, _)) ==
    UNION {{File(sz, el) : el \in Lens(source, sz)} : sz \in sizes}

FilesOver(sources, sizes, Lens(_, _)) ==
    {f \in [sources -> UNION {FileChoices(s, sizes, Lens) : s \in sources}] :
        \A s \in sources : f[s] \in FileChoices(s, sizes, Lens)}

AssetEncodingDetails(content_encoding, sha256) ==
    [content_encoding |-> content_encoding, sha256 |-> sha256]

AssetDetails(content_type, encodings) ==
    [content_type |-> content_type, encodings |-> encodings]

OtherDigest == Sha256(Bytes("old", 0, 7))

\* What the canister may hold for the file at `source`: what is there now,
\* or something that differs from it in one respect.
DetailsMatching(source, file) ==
    LET type == MimeToString(MediaTypeOf(source))
        identity == AssetEncodingDetails(CONTENT_ENCODING_IDENTITY,
                        Some(Sha256(FileData(source, file.size))))
        gzip == AssetEncodingDetails(EncoderToString(Gzip),
                        Some(Sha256(EncodedData(source, Gzip, file.encoded_len))))
    IN  AssetDetails(type, <<identity, gzip>>)

DetailsChoices(source, file) ==
    LET m == DetailsMatching(source, file) IN
    { m,
      AssetDetails(m.content_type, <<m.encodings[1]>>),
      AssetDetails(m.content_type, <<m.encodings[2]>>),
      AssetDetails(m.content_type,
          << AssetEncodingDetails(CONTENT_ENCODING_IDENTITY, Some(OtherDigest)),
             AssetEncodingDetails(EncoderToString(Gzip), None) >>),
      AssetDetails("application/octet-stream", m.encodings) }

\* Snapshots over the descriptors: each key absent or with one of choices.
SnapshotsOver(descriptors, fs, Choices(_, _)) ==
    UNION { {c \in [{KeyOf(s) : s \in present} ->
                      UNION {Choices(s, fs[s]) : s \in present}] :
                \A s \in present : c[KeyOf(s)] \in Choices(s, fs[s])} :
            present \in SUBSET SourcesOf(descriptors) }

RunSizes == {0, 1000001}

\* For the runs of several assets: what is there now, whole or, where
\* there is an encoded variant, without it.
RunChoices(source, file) ==
    LET m == DetailsMatching(source, file) IN
    IF ApplicableEncoders(MediaTypeOf(source)) = <<>> THEN {m}
    ELSE {m, AssetDetails(m.content_type, <<m.encodings[1]>>)}

AssetSizes ==
    {0, 1, MAX_CHUNK_SIZE - 1, MAX_CHUNK_SIZE, MAX_CHUNK_SIZE + 1, 3000000,
     2 * MAX_CHUNK_SIZE, 2 * MAX_CHUNK_SIZE + 1}

\* make_project_assets is entered: the semaphores are new, one future per
\* descriptor is made, none is polled yet.
Entered(file_capacity, net_capacity) ==
    /\ semaphores = SemaphoresNew(file_capacity, net_capacity)
    /\ tasks = [a \in Assets |-> NewTask]
    /\ canister = [chunks |-> <<>>, calls |-> 0]
    /\ calls_issued = {}
    /\ run = [pc |-> "running"]

\* Runs of up to MaxAssets assets under small semaphores.
Init ==
    /\ chunk_upload_target \in BOOLEAN
    /\ asset_descriptors \in Sublists(3, MaxAssets) \ {<<>>}
    /\ files \in FilesOver(SourcesOf(asset_descriptors), RunSizes, RunEncodedLens)
    /\ canister_assets \in SnapshotsOver(asset_descriptors, files, RunChoices)
    /\ Entered(FileCapacity, NetCapacity)
    /\ probe = NoProbe

\* Runs of one asset, of any of the sizes around the chunk boundaries,
\* against every kind of snapshot.
InitAsset ==
    /\ chunk_upload_target \in BOOLEAN
    /\ asset_descriptors \in Sublists(4, 1) \ {<<>>}
    /\ files \in FilesOver(SourcesOf(asset_descriptors), AssetSizes, EncodedLens)
    /\ canister_assets \in SnapshotsOver(asset_descriptors, files, DetailsChoices)
    /\ Entered(MAX_COST_SINGLE_FILE_MB, NetCapacity)
    /\ probe = NoProbe

Next ==
    \/ \E a \in Assets : StartAsset(a)
    \/ \E a \in Assets : AcquireFile(a)
    \/ \E a \in Assets : LoadContent(a)
    \/ \E a \in Assets : \E e \in DOMAIN tasks[a].encodings : MakeEncoding(a, e)
    \/ \E a \in Assets : \E e \in DOMAIN tasks[a].encodings :
          \E i \in DOMAIN tasks[a].encodings[e].calls : CreateChunkCall(a, e, i)
    \/ \E a \in Assets : \E e \in DOMAIN tasks[a].encodings :
          \E i \in DOMAIN tasks[a].encodings[e].calls : CreateChunkReturn(a, e, i)
    \/ \E a \in Assets : FinishAsset(a)
    \/ FinishRun

Spec == Init /\ [][Next]_vars

SpecAsset == InitAsset /\ [][Next]_vars

\* ------------------------------------------------------------------------
\* The pure functions on drawn arguments
\* ------------------------------------------------------------------------

\* No run: make_project_assets is not entered.
NoRun ==
    /\ chunk_upload_target = FALSE
    /\ asset_descriptors = <<>>
    /\ files = <<>>
    /\ canister_assets = <<>>
    /\ Entered(FileCapacity, NetCapacity)

\* File sizes around every whole megabyte up to MaxCostMb, and one near the
\* largest the checker's integers hold.
CostSizes ==
    {sz \in {mb * 1000000 + d : mb \in 0..MaxCostMb, d \in {-1, 0, 1}} :
        sz >= 0} \cup {2000000000}

InitCost ==
    /\ NoRun
    /\ \E file_size \in CostSizes :
         probe = [fn |-> "permits", file_size |-> file_size, ret |-> None]

ApplyPermits ==
    /\ probe.fn = "permits"
    /\ probe.ret = None
    /\ probe' = [probe EXCEPT !.ret = Some(Permits(probe.file_size))]
    /\ UNCHANGED <<inputs, semaphores, tasks, canister, calls_issued, run>>

SpecCost == InitCost /\ [][ApplyPermits]_vars

\* Digests, labels, types and keys for the drawn dedup decisions.
ProbeDigests == {Sha256(Bytes("a.css", 0, 5)), OtherDigest}

ProbeLabels == {CONTENT_ENCODING_IDENTITY, EncoderToString(Gzip)}

ProbeMedia == {TEXT_CSS, IMAGE_PNG}

ProbeKeys == {"/a.css", "/b.png"}

RECURSIVE SeqsUpTo(_, _)
SeqsUpTo(S, n) ==
    IF n = 0 THEN {<<>>}
    ELSE LET shorter == SeqsUpTo(S, n - 1) IN
         shorter \cup {Append(l, x) : l \in {y \in shorter : Len(y) = n - 1},
                                      x \in S}

ProbeDetails ==
    {AssetDetails(MimeToString(m), encodings) :
        m \in ProbeMedia,
        encodings \in SeqsUpTo(
            {AssetEncodingDetails(l, d) :
                l \in ProbeLabels,
                d \in {None} \cup {Some(x) : x \in ProbeDigests}},
            MaxListed)}

\* Snapshots with no asset or with one.
ProbeSnapshots ==
    {<<>>} \cup {[k \in {key} |-> details] :
                    key \in ProbeKeys, details \in ProbeDetails}

InitDedup ==
    /\ NoRun
    /\ \E key \in ProbeKeys, media_type \in ProbeMedia,
          content_encoding \in ProbeLabels, sha256 \in ProbeDigests,
          snapshot \in ProbeSnapshots :
         probe = [fn |-> "already_in_place", key |-> key,
                  media_type |-> media_type,
                  content_encoding |-> content_encoding,
                  sha256 |-> sha256, canister_assets |-> snapshot,
                  ret |-> None]

ApplyAlreadyInPlace ==
    /\ probe.fn = "already_in_place"
    /\ probe.ret = None
    /\ probe' = [probe EXCEPT !.ret =
            Some(AlreadyInPlace(probe.canister_assets, probe.key,
                                probe.media_type, probe.content_encoding,
                                probe.sha256))]
    /\ UNCHANGED <<inputs, semaphores, tasks, canister, calls_issued, run>>

SpecDedup == InitDedup /\ [][ApplyAlreadyInPlace]_vars

\* ------------------------------------------------------------------------
\* Claims
\* ------------------------------------------------------------------------

\* The encodings of the snapshot's entry for `key`, none when it has none.
ListedFor(snapshot, key) ==
    IF key \in DOMAIN snapshot THEN snapshot[key].encodings ELSE <<>>

\* The entry records digest d for the label: the listed encoding with the
\* label (the first, should the label be listed twice) has digest d.
RecordsDigest(listed, label, d) ==
    \E i \in DOMAIN listed :
        /\ listed[i].content_encoding = label
        /\ \A j \in 1..(i - 1) : listed[j].content_encoding # label
        /\ listed[i].sha256 = Some(d)

\* C1: already_in_place is true exactly when the snapshot has an entry for
\* the key, the entry's content type is the local media type, and the entry
\* records for this encoding label a digest equal to the local digest; in
\* every other case it is false, and it is always a boolean, never an error.
C1_AlreadyInPlaceIff ==
    (probe.fn = "already_in_place" /\ probe.ret # None) =>
        /\ probe.ret[1] \in BOOLEAN
        /\ probe.ret[1] <=>
             /\ probe.key \in DOMAIN probe.canister_assets
             /\ probe.canister_assets[probe.key].content_type
                  = MimeToString(probe.media_type)
             /\ RecordsDigest(ListedFor(probe.canister_assets, probe.key),
                              probe.content_encoding, probe.sha256)

C1_Witness ==
    /\ probe.fn = "already_in_place"
    /\ probe.ret = Some(TRUE)
    /\ Len(ListedFor(probe.canister_assets, probe.key)) = 2
    /\ probe.content_encoding = EncoderToString(Gzip)

\* The least c with c * d >= n.
CeilDiv(n, d) ==
    CHOOSE c \in 0..(n \div d + 1) : c * d >= n /\ (c - 1) * d < n

\* C9: the permits asked for a file of size_bytes bytes are
\* max(1, min(ceil(size_bytes / 1,000,000), 45)): 1 up to 1,000,000 bytes,
\* 2 for 1,000,001 bytes, 45 from 44,000,001 bytes on, never 0, never
\* more than 45.
C9_PermitsFormula ==
    (probe.fn = "permits" /\ probe.ret # None) =>
        LET size_bytes == probe.file_size
            permits == probe.ret[1]
        IN  /\ permits = Max(1, Min(CeilDiv(size_bytes, 1000000), 45))
            /\ size_bytes <= 1000000 => permits = 1
            /\ size_bytes = 1000001 => permits = 2
            /\ size_bytes >= 44000001 => permits = 45
            /\ permits >= 1
            /\ permits <= 45

C9_Witness ==
    /\ probe.fn = "permits"
    /\ probe.file_size = 44000001
    /\ probe.ret = Some(45)

\* The create_chunk calls issued for the encoding `label` of asset a.
CallsFor(a, label) ==
    {c \in calls_issued : c.asset = a /\ c.content_encoding = label}

\* The snapshot holds this encoding of the asset as it is locally.
SnapshotMatches(key, media_type, label, sha256) ==
    /\ key \in DOMAIN canister_assets
    /\ canister_assets[key].content_type = MimeToString(media_type)
    /\ RecordsDigest(ListedFor(canister_assets, key), label, sha256)

\* Every encoding of every asset of the returned map matches the snapshot.
EveryEncodingMatches ==
    \A k \in DOMAIN run.assets :
        \A l \in DOMAIN run.assets[k].encodings :
            SnapshotMatches(k, run.assets[k].media_type, l,
                            run.assets[k].encodings[l].sha256)

\* C2: no create_chunk call is ever issued for an encoding whose
\* already_in_place is true; and a run in which every materialized encoding
\* of every asset matches the snapshot issues no create_chunk call at all
\* and returns every encoding with already_in_place = true.
C2_NoCallWhenInPlace ==
    /\ \A a \in Assets : \A e \in DOMAIN tasks[a].encodings :
          tasks[a].encodings[e].already_in_place =>
              CallsFor(a, tasks[a].encodings[e].content_encoding) = {}
    /\ (run.pc = "ok" /\ EveryEncodingMatches) =>
          /\ calls_issued = {}
          /\ \A k \in DOMAIN run.assets :
                \A l \in DOMAIN run.assets[k].encodings :
                    run.assets[k].encodings[l].already_in_place

C2_Witness ==
    /\ run.pc = "ok"
    /\ chunk_upload_target
    /\ Len(asset_descriptors) = 2
    /\ EveryEncodingMatches
    /\ \E k \in DOMAIN run.assets :
          Cardinality(DOMAIN run.assets[k].encodings) = 2

\* The payload make_project_asset_encoding was given for encoding e of
\* asset a: the file's bytes, or what the encoder made of them.
OriginalData(a, e) ==
    LET source == asset_descriptors[a].source
        enc == tasks[a].encodings[e]
    IN  IF enc.encoder = None
        THEN FileData(source, files[source].size)
        ELSE EncodedData(source, enc.encoder[1], files[source].encoded_len)

\* upload_content_chunks returned Ok for encoding e of asset a.
Uploaded(a, e) ==
    /\ tasks[a].encodings[e].pc = "done"
    /\ tasks[a].encodings[e].uploaded

\* C3: after a successful upload_content_chunks, the payloads the canister
\* received, concatenated in the order of the returned chunk identifiers,
\* are the original payload: nothing lost, doubled or out of place.
C3_ChunksReconstruct ==
    \A a \in Assets : \A e \in DOMAIN tasks[a].encodings :
        Uploaded(a, e) =>
            LET ids == tasks[a].encodings[e].chunk_ids IN
            /\ \A j \in DOMAIN ids : ids[j] \in DOMAIN canister.chunks
            /\ ConcatAll([j \in DOMAIN ids |-> canister.chunks[ids[j]]])
                 = Norm(OriginalData(a, e))

C3_Witness ==
    \E a \in Assets : \E e \in DOMAIN tasks[a].encodings :
        /\ Uploaded(a, e)
        /\ Len(tasks[a].encodings[e].chunk_ids) = 3
        /\ BytesLen(OriginalData(a, e)) = 2 * MAX_CHUNK_SIZE + 1

\* C4: a successful upload_content_chunks of a payload of L bytes issues
\* exactly max(1, ceil(L / 1,900,000)) create_chunk calls and returns as
\* many identifiers: one call of zero bytes for L = 0, one for L = 1,900,000,
\* two for L = 1,900,001; no payload is longer than 1,900,000 bytes and
\* every payload but the last is exactly that long.
C4_ChunkCount ==
    \A a \in Assets : \A e \in DOMAIN tasks[a].encodings :
        Uploaded(a, e) =>
            LET L == BytesLen(OriginalData(a, e))
                n == Max(1, CeilDiv(L, 1900000))
                issued == CallsFor(a, tasks[a].encodings[e].content_encoding)
            IN  /\ Cardinality(issued) = n
                /\ {c.index : c \in issued} = 1..n
                /\ Len(tasks[a].encodings[e].chunk_ids) = n
                /\ \A c \in issued :
                      /\ BytesLen(c.payload) <= 1900000
                      /\ c.index < n => BytesLen(c.payload) = 1900000
                /\ L = 0 => n = 1 /\ \A c \in issued : BytesLen(c.payload) = 0
                /\ L = 1900000 => n = 1
                /\ L = 1900001 => n = 2

C4_Witness ==
    \E a \in Assets : \E e \in DOMAIN tasks[a].encodings :
        /\ Uploaded(a, e)
        /\ BytesLen(OriginalData(a, e)) = 1900001
        /\ Len(tasks[a].encodings[e].chunk_ids) = 2

\* C5: in the returned sequence the i-th identifier is the one returned by
\* the call that carried the i-th chunk by ascending byte offset, in
\* whatever order the calls completed.
C5_PositionalIds ==
    \A a \in Assets : \A e \in DOMAIN tasks[a].encodings :
        Uploaded(a, e) =>
            LET enc == tasks[a].encodings[e]
                ids == enc.chunk_ids
            IN  \A i \in DOMAIN ids :
                  /\ ids[i] = enc.calls[i].chunk_id
                  /\ ids[i] \in DOMAIN canister.chunks
                  /\ BytesLen(OriginalData(a, e)) > 0 =>
                        canister.chunks[ids[i]].lo = (i - 1) * MAX_CHUNK_SIZE
                  /\ \A j \in DOMAIN ids :
                        i < j => canister.chunks[ids[i]].lo
                                   < canister.chunks[ids[j]].lo

\* The calls completed in another order than they were made in.
C5_Witness ==
    \E a \in Assets : \E e \in DOMAIN tasks[a].encodings :
        /\ Uploaded(a, e)
        /\ Len(tasks[a].encodings[e].chunk_ids) = 3
        /\ tasks[a].encodings[e].chunk_ids[1] > tasks[a].encodings[e].chunk_ids[3]
        /\ tasks[a].encodings[e].chunk_ids[3] > tasks[a].encodings[e].chunk_ids[2]

\* The media types that qualify for compression: text, HTML, script.
Compressible(media_type) ==
    \/ media_type.type = "text"
    \/ media_type.subtype \in {"html", "javascript"}

\* C6: for an asset whose media type qualifies for compression, the
\* compressed variant is in the asset's encoding map exactly when the
\* transformed length is strictly less than the original length; on a tie
\* or an increase it is not in the map and no create_chunk call is issued
\* for it.
C6_CompressedIffShorter ==
    \A a \in Assets :
        LET source == asset_descriptors[a].source
            shorter == files[source].encoded_len < files[source].size
        IN  Compressible(MediaTypeOf(source)) =>
              /\ tasks[a].pc = "done" =>
                    ("gzip" \in DOMAIN tasks[a].result[1].encodings <=> shorter)
              /\ run.pc = "ok" =>
                    ("gzip" \in DOMAIN
                        run.assets[asset_descriptors[a].key].encodings
                     <=> shorter)
              /\ ~shorter => CallsFor(a, "gzip") = {}

\* A tie: the encoder made as many bytes as the file has.
C6_Witness ==
    \E a \in Assets :
        LET source == asset_descriptors[a].source IN
        /\ Compressible(MediaTypeOf(source))
        /\ files[source].size > 0
        /\ files[source].encoded_len = files[source].size
        /\ chunk_upload_target
        /\ run.pc = "ok"
        /\ DOMAIN run.assets[asset_descriptors[a].key].encodings = {"identity"}
        /\ CallsFor(a, "identity") # {}

\* C7: the file permits held by all asset tasks together never exceed the
\* capacity of the file semaphore.
C7_FilePermitsWithinCapacity ==
    /\ FilePermitsHeld <= semaphores.file.capacity
    /\ FilePermitsHeld = semaphores.file.capacity - semaphores.file.permits

\* One task holds permits, and another waits for more than are left.
C7_Witness ==
    \E a \in Assets : \E b \in Assets :
        /\ a # b
        /\ tasks[a].held = 2
        /\ tasks[b].pc = "acquire"
        /\ tasks[b].permits > semaphores.file.permits
        /\ FilePermitsHeld + tasks[b].permits > semaphores.file.capacity

\* C8: the outstanding create_chunk calls of all assets and encodings
\* together never exceed the capacity of the network semaphore, and each
\* holds exactly one of its permits from its start to its completion.
C8_CallsWithinCapacity ==
    /\ InFlight <= semaphores.create_chunk.capacity
    /\ InFlight = semaphores.create_chunk.capacity
                    - semaphores.create_chunk.permits

\* Calls of two assets hold every permit, and a further call waits.
C8_Witness ==
    /\ InFlight = semaphores.create_chunk.capacity
    /\ \E a \in Assets : \E b \in Assets :
          /\ a # b
          /\ CallsIn(tasks[a], "flight") > 0
          /\ CallsIn(tasks[b], "flight") > 0
          /\ CallsIn(tasks[b], "wait") > 0

\* The task has ended: returned Ok, returned Err, or was dropped.
Ended(t) == t.pc \in {"done", "failed", "dropped"}

\* The cost of a file of size_bytes bytes.
Cost(size_bytes) == Max(1, Min(CeilDiv(size_bytes, 1000000), 45))

\* C10: an asset task loads its content only while it holds its cost file
\* permits, and holds none after it has ended, however it ended (Ok, or an
\* Err of load, encoder or chunk upload); when all tasks have ended the
\* file semaphore has all its permits.
C10_PermitsReturned ==
    /\ \A a \in Assets :
          /\ tasks[a].pc = "load" =>
                tasks[a].held = Cost(files[asset_descriptors[a].source].size)
          /\ Ended(tasks[a]) => tasks[a].held = 0
    /\ (\A a \in Assets : Ended(tasks[a])) =>
          semaphores.file.permits = semaphores.file.capacity

\* A chunk upload failed in one task while another held its permits.
C10_Witness ==
    /\ run.pc = "err"
    /\ run.others_holding > 0
    /\ \E a \in Assets : \E b \in Assets :
          /\ tasks[a].pc = "failed"
          /\ tasks[a].error = "create_chunk"
          /\ tasks[b].pc = "dropped"
    /\ semaphores.file.permits = semaphores.file.capacity

\* The ProjectAssetEncodings of the map a successful run returned.
Returned ==
    IF run.pc = "ok"
    THEN UNION {{<<k, l>> : l \in DOMAIN run.assets[k].encodings} :
                   k \in DOMAIN run.assets}
    ELSE {}

ReturnedEncoding(kl) == run.assets[kl[1]].encodings[kl[2]]

\* C11: every ProjectAssetEncoding a successful run returns has an empty
\* chunk_ids when already_in_place is true, and, when already_in_place is
\* false and an upload target was supplied, a chunk_ids of length at least
\* 1, also for content of zero length.
C11_ChunkIdsByDecision ==
    \A kl \in Returned :
        LET pae == ReturnedEncoding(kl) IN
        /\ pae.already_in_place => pae.chunk_ids = <<>>
        /\ (~pae.already_in_place /\ chunk_upload_target) =>
              Len(pae.chunk_ids) >= 1

\* An empty file that is not in place, uploaded.
C11_Witness ==
    /\ chunk_upload_target
    /\ \E kl \in Returned :
          /\ ~ReturnedEncoding(kl).already_in_place
          /\ Len(ReturnedEncoding(kl).chunk_ids) = 1
          /\ \E a \in Assets :
                /\ asset_descriptors[a].key = kl[1]
                /\ files[asset_descriptors[a].source].size = 0

\* Some step of task a failed.
Failed(a) == tasks[a].pc = "failed"

Stages == {"metadata", "load", "encode", "create_chunk"}

\* C12: if any step of any asset task fails (metadata, load, an encoder, a
\* create_chunk call), make_project_assets returns an error and no asset
\* map, and that stays so; a map is returned only when every task, every
\* encoding and every call succeeded.
C12_AnyFailureFailsRun ==
    /\ [](/\ \A a \in Assets :
                Failed(a) =>
                    /\ run.pc = "err"
                    /\ "assets" \notin DOMAIN run
                    /\ tasks[a].error \in Stages
                    /\ run.error = tasks[a].error
                    /\ run.key = asset_descriptors[a].key
          /\ run.pc = "err" => \E a \in Assets : Failed(a)
          /\ run.pc = "ok" =>
                /\ DOMAIN run = {"pc", "assets"}
                /\ \A a \in Assets :
                      /\ tasks[a].pc = "done"
                      /\ \A e \in DOMAIN tasks[a].encodings :
                            /\ tasks[a].encodings[e].pc \in {"done", "none"}
                            /\ \A i \in DOMAIN tasks[a].encodings[e].calls :
                                  tasks[a].encodings[e].calls[i].pc = "ok")
    /\ [][run.pc = "err" => run'.pc = "err"]_vars

\* A create_chunk call failed after another task had returned its asset.
C12_Witness ==
    /\ run.pc = "err"
    /\ run.error = "create_chunk"
    /\ canister.chunks # <<>>
    /\ \E a \in Assets : \E b \in Assets :
          /\ Failed(a)
          /\ tasks[b].pc = "done"
          /\ tasks[b].result # None

\* The asset task that made the returned asset under key k.
TaskOf(k) == CHOOSE a \in Assets : asset_descriptors[a].key = k

\* The bytes the encoding `label` of the file at `source` is made of.
LocalData(source, label) ==
    IF label = CONTENT_ENCODING_IDENTITY
    THEN FileData(source, files[source].size)
    ELSE EncodedData(source, Gzip, files[source].encoded_len)

\* C13: in a dry run (no upload target) no create_chunk call is issued for
\* any asset or encoding, whatever the snapshot holds, and every returned
\* encoding has an empty chunk_ids and still carries its digest and its
\* already_in_place decision.
C13_DryRunNoCalls ==
    ~chunk_upload_target =>
        /\ calls_issued = {}
        /\ canister.chunks = <<>>
        /\ InFlight = 0
        /\ \A kl \in Returned :
              LET pae == ReturnedEncoding(kl)
                  source == asset_descriptors[TaskOf(kl[1])].source
              IN  /\ pae.chunk_ids = <<>>
                  /\ pae.sha256 = Sha256(LocalData(source, kl[2]))
                  /\ pae.already_in_place <=>
                        SnapshotMatches(kl[1], MediaTypeOf(source), kl[2],
                                        pae.sha256)

\* A dry run returned one encoding that is in place and one that is not.
C13_Witness ==
    /\ ~chunk_upload_target
    /\ run.pc = "ok"
    /\ canister_assets # <<>>
    /\ \E kl \in Returned : \E km \in Returned :
          /\ ReturnedEncoding(kl).already_in_place
          /\ ~ReturnedEncoding(km).already_in_place
          /\ BytesLen(LocalData(asset_descriptors[TaskOf(km[1])].source, km[2]))
                > MAX_CHUNK_SIZE

\* The task has been polled and has not returned.
Started(t) == t.pc \in {"acquire", "load", "encodings"}

\* The create_chunk calls that were outstanding when the Err was returned,
\* the failed call itself not counted.
SiblingsDropped(r) ==
    IF r.error = "create_chunk" THEN r.calls_dropped - 1 ELSE r.calls_dropped

IsPrefix(s, t) == Len(s) <= Len(t) /\ SubSeq(t, 1, Len(s)) = s

\* C14 as stated: when the join returns the first error, the other started
\* asset tasks and the dispatched sibling create_chunk calls are not
\* cancelled.
C14_OthersNotCancelled ==
    [][/\ \A a \in Assets :
             Started(tasks[a]) => tasks'[a].pc # "dropped"
       /\ run'.pc = "err" => SiblingsDropped(run') = 0]_vars

\* C14 as amended: when the join returns the first error, every other asset
\* task that has not returned and every create_chunk call that has not
\* completed is dropped with the join: none is left to run, no call is in
\* flight or waiting, every permit is back, and nothing happens after the
\* Err; the chunks that completed calls created stay in the canister.
C14_OthersDropped ==
    /\ [](run.pc = "err" =>
            /\ \A a \in Assets : Ended(tasks[a])
            /\ \A a \in Assets :
                  tasks[a].pc # "done" => tasks[a].encodings = <<>>
            /\ InFlight = 0
            /\ semaphores.file.permits = semaphores.file.capacity
            /\ semaphores.create_chunk.permits
                  = semaphores.create_chunk.capacity
            /\ Cardinality(calls_issued)
                  >= Len(canister.chunks) + run.calls_dropped)
    /\ [][/\ IsPrefix(canister.chunks, canister'.chunks)
          /\ run.pc = "err" => UNCHANGED <<tasks, canister, calls_issued>>]_vars

\* A call failed while a sibling call was outstanding, another task held
\* file permits, and the canister had stored a chunk.
C14_Witness ==
    /\ run.pc = "err"
    /\ run.error = "create_chunk"
    /\ SiblingsDropped(run) >= 1
    /\ run.others_holding >= 1
    /\ canister.chunks # <<>>
    /\ \E a \in Assets : tasks[a].pc = "dropped"

\* ------------------------------------------------------------------------
\* Large files under a file semaphore of MAX_COST_SINGLE_FILE_MB permits
\* ------------------------------------------------------------------------

\* File sizes at and beyond the cap of the cost.
CapSizes == {1, 44000001, 50000000}

\* Runs of up to MaxAssets assets under a file semaphore of 45 permits,
\* nothing being in the canister yet: dry runs of files at and beyond the
\* cap, and uploads of empty files.
InitCap ==
    /\ chunk_upload_target \in BOOLEAN
    /\ asset_descriptors \in Sublists(3, MaxAssets) \ {<<>>}
    /\ files \in FilesOver(SourcesOf(asset_descriptors),
                           IF chunk_upload_target THEN {0} ELSE CapSizes,
                           RunEncodedLens)
    /\ canister_assets = <<>>
    /\ Entered(MAX_COST_SINGLE_FILE_MB, NetCapacity)
    /\ probe = NoProbe

\* The executor polls whatever is ready, and every call returns in the end.
SpecCap == InitCap /\ [][Next]_vars /\ WF_vars(Next)

\* C15: an asset task that waits for its file permits eventually has them,
\* whatever the size of its file, unless the run has ended with an error
\* meanwhile: it asks for at most 45, which a file semaphore of 45 or more
\* permits can grant once the other holders have released theirs.
C15_EventuallyAcquires ==
    /\ [](\A a \in Assets :
            /\ tasks[a].permits <= MAX_COST_SINGLE_FILE_MB
            /\ tasks[a].permits <= semaphores.file.capacity)
    /\ \A a \in 1..MaxAssets :
          (a \in Assets /\ tasks[a].pc = "acquire")
             ~> \/ /\ a \in Assets
                   /\ tasks[a].pc = "load"
                   /\ tasks[a].held = tasks[a].permits
                \/ run.pc = "err"

\* A file beyond the cap holds all 45 permits while another waits for 45.
C15_Witness ==
    \E a \in Assets : \E b \in Assets :
        /\ tasks[a].file_size = 50000000
        /\ tasks[a].held = MAX_COST_SINGLE_FILE_MB
        /\ semaphores.file.permits = 0
        /\ tasks[b].pc = "acquire"
        /\ tasks[b].permits = MAX_COST_SINGLE_FILE_MB

\* C16: the map a successful make_project_assets returns has every
\* supplied descriptor under its own key, with the ProjectAsset made from
\* that descriptor and its file; none is lost or overwritten by another.
C16_EveryAssetUnderItsKey ==
    run.pc = "ok" =>
        /\ DOMAIN run.assets = {asset_descriptors[a].key : a \in Assets}
        /\ Cardinality(DOMAIN run.assets) = Len(asset_descriptors)
        /\ \A a \in Assets :
              LET d == asset_descriptors[a]
                  pa == run.assets[d.key]
              IN  /\ pa.asset_descriptor = d
                  /\ pa = tasks[a].result[1]
                  /\ pa.media_type = MediaTypeOf(d.source)
                  /\ CONTENT_ENCODING_IDENTITY \in DOMAIN pa.encodings
                  /\ pa.encodings[CONTENT_ENCODING_IDENTITY].sha256
                        = Sha256(FileData(d.source, files[d.source].size))

\* Two assets of different files were returned.
C16_Witness ==
    /\ run.pc = "ok"
    /\ Len(asset_descriptors) = 2
    /\ Cardinality(DOMAIN run.assets) = 2
    /\ files[asset_descriptors[1].source].size
          # files[asset_descriptors[2].source].size

\* C17: the encoding map of every successfully processed asset has the
\* identity encoding; for an asset whose media type does not qualify for
\* compression (an image, say) no compressed variant is attempted, no call
\* is issued for one, and the map has the identity encoding only.
C17_IdentityAlways ==
    \A a \in Assets :
        LET media_type == MediaTypeOf(asset_descriptors[a].source) IN
        /\ tasks[a].pc = "done" =>
              CONTENT_ENCODING_IDENTITY \in DOMAIN tasks[a].result[1].encodings
        /\ ~Compressible(media_type) =>
              /\ \A e \in DOMAIN tasks[a].encodings :
                    tasks[a].encodings[e].encoder = None
              /\ \A c \in calls_issued :
                    c.asset = a => c.content_encoding = CONTENT_ENCODING_IDENTITY
              /\ tasks[a].pc = "done" =>
                    DOMAIN tasks[a].result[1].encodings
                        = {CONTENT_ENCODING_IDENTITY}
              /\ run.pc = "ok" =>
                    DOMAIN run.assets[asset_descriptors[a].key].encodings
                        = {CONTENT_ENCODING_IDENTITY}

\* An image of two chunks was uploaded and returned.
C17_Witness ==
    \E a \in Assets :
        /\ MediaTypeOf(asset_descriptors[a].source) = IMAGE_PNG
        /\ run.pc = "ok"
        /\ DOMAIN run.assets[asset_descriptors[a].key].encodings
              = {CONTENT_ENCODING_IDENTITY}
        /\ Len(run.assets[asset_descriptors[a].key]
                  .encodings[CONTENT_ENCODING_IDENTITY].chunk_ids) = 2

\* The file of asset a is empty, there is an upload target, and the
\* snapshot has no entry for the asset's key.
EmptyAndNew(a) ==
    /\ files[asset_descriptors[a].source].size = 0
    /\ chunk_upload_target
    /\ asset_descriptors[a].key \notin DOMAIN canister_assets

\* C18: an empty file of any media type, processed with an upload target
\* and not present remotely, gives exactly one encoding, identity, whose
\* chunk_ids has length 1, from exactly one create_chunk call of zero
\* bytes; a compressed variant is never kept, no encoded length being less
\* than 0.
C18_EmptyFileOneChunk ==
    \A a \in Assets :
        EmptyAndNew(a) =>
            /\ \A e \in DOMAIN tasks[a].encodings :
                  tasks[a].encodings[e].encoder # None =>
                      tasks[a].encodings[e].pc \in {"new", "none"}
            /\ \A c \in calls_issued :
                  c.asset = a =>
                      /\ c.content_encoding = CONTENT_ENCODING_IDENTITY
                      /\ c.index = 1
                      /\ BytesLen(c.payload) = 0
            /\ tasks[a].pc = "done" =>
                  LET encodings == tasks[a].result[1].encodings
                      identity == encodings[CONTENT_ENCODING_IDENTITY]
                  IN  /\ DOMAIN encodings = {CONTENT_ENCODING_IDENTITY}
                      /\ ~identity.already_in_place
                      /\ Len(identity.chunk_ids) = 1
                      /\ Cardinality(CallsFor(a, CONTENT_ENCODING_IDENTITY)) = 1
                      /\ BytesLen(canister.chunks[identity.chunk_ids[1]]) = 0

\* An empty stylesheet, which the encoder made 18 bytes of, was returned.
C18_Witness ==
    \E a \in Assets :
        /\ EmptyAndNew(a)
        /\ MediaTypeOf(asset_descriptors[a].source) = TEXT_CSS
        /\ files[asset_descriptors[a].source].encoded_len = 18
        /\ run.pc = "ok"
        /\ Len(run.assets[asset_descriptors[a].key]
                  .encodings[CONTENT_ENCODING_IDENTITY].chunk_ids) = 1

\* The content of asset a is loaded and every encoder has been applied.
TransformsComplete(a) ==
    /\ tasks[a].pc = "encodings"
    /\ \A e \in DOMAIN tasks[a].encodings : tasks[a].encodings[e].pc # "new"

\* Calls of asset a wait for a network permit or are outstanding.
Uploading(a) ==
    CallsIn(tasks[a], "wait") + CallsIn(tasks[a], "flight") > 0

\* C19 as stated: once loading and all encoding transforms of an asset are
\* complete, its task holds no file permits, also while its create_chunk
\* calls wait for network permits or are outstanding.
C19_ReleasedAfterTransforms ==
    \A a \in Assets : TransformsComplete(a) => tasks[a].held = 0

\* C19 as amended: an asset task holds its file permits, as many as its
\* file costs, from their acquisition until make_project_asset returns or
\* is dropped: while it loads, while it encodes, and while its create_chunk
\* calls wait for network permits or are outstanding; before and after it
\* holds none.
C19_HeldUntilReturn ==
    \A a \in Assets :
        LET cost == Cost(files[asset_descriptors[a].source].size) IN
        /\ tasks[a].pc \in {"load", "encodings"} => tasks[a].held = cost
        /\ Uploading(a) => tasks[a].held = cost /\ cost >= 1
        /\ tasks[a].pc \in {"new", "acquire"} => tasks[a].held = 0
        /\ Ended(tasks[a]) => tasks[a].held = 0

\* Every transform of an asset is done, one of its calls is outstanding and
\* another waits for a network permit, and the task holds its two permits.
C19_Witness ==
    \E a \in Assets :
        /\ TransformsComplete(a)
        /\ CallsIn(tasks[a], "wait") > 0
        /\ CallsIn(tasks[a], "flight") > 0
        /\ semaphores.create_chunk.permits = 0
        /\ tasks[a].held = 2

\* max(1, ceil(L / chunk_size)) for the encoding `label` of the file at
\* `source`.
ChunksOf(source, label) ==
    Max(1, CeilDiv(BytesLen(LocalData(source, label)), MAX_CHUNK_SIZE))

\* The sum of ChunksOf over the returned encodings that are not in place.
ExpectedCalls ==
    SumSeq([a \in Assets |->
        LET d == asset_descriptors[a]
            encodings == run.assets[d.key].encodings
            Calls(l) == IF l \in DOMAIN encodings /\ ~encodings[l].already_in_place
                        THEN ChunksOf(d.source, l) ELSE 0
        IN  Calls(CONTENT_ENCODING_IDENTITY) + Calls(EncoderToString(Gzip))])

\* C20: no create_chunk call is made twice: each chunk of each encoding is
\* the payload of at most one call, every call made has returned its chunk
\* or is outstanding (or was, when an Err ended the run), a successful run
\* with an upload target has made as many calls as the sum of
\* max(1, ceil(L / 1,900,000)) over the encodings not in place, and after
\* a failed call no call is made.
C20_NoRetry ==
    /\ [](/\ canister.calls = Cardinality(calls_issued)
          /\ \A c \in calls_issued : \A d \in calls_issued :
                (/\ c.asset = d.asset
                 /\ c.content_encoding = d.content_encoding
                 /\ c.index = d.index) => c = d
          /\ run.pc = "running" =>
                canister.calls = Len(canister.chunks) + InFlight
          /\ run.pc = "err" =>
                canister.calls = Len(canister.chunks) + run.calls_dropped
          /\ run.pc = "ok" =>
                /\ canister.calls = Len(canister.chunks)
                /\ canister.calls =
                      IF chunk_upload_target THEN ExpectedCalls ELSE 0)
    /\ [][run.pc = "err" => canister'.calls = canister.calls]_vars

\* Two encodings of three chunks and one were uploaded in four calls.
C20_Witness ==
    /\ run.pc = "ok"
    /\ canister.calls = 4
    /\ ExpectedCalls = 4
    /\ \E k \in DOMAIN run.assets :
          Cardinality(DOMAIN run.assets[k].encodings) = 2

\* ------------------------------------------------------------------------
\* Uploads under contended file and network semaphores, scheduled fairly
\* ------------------------------------------------------------------------

\* Runs with an upload target and nothing in the canister yet, of files of
\* cost 2. The file semaphore has 45 permits, or, for the tasks to wait
\* for one another, FileCapacity: more than any one file costs, less than
\* all cost together. The network semaphore has one permit or NetCapacity.
InitLive ==
    /\ chunk_upload_target = TRUE
    /\ asset_descriptors \in Sublists(3, MaxAssets) \ {<<>>}
    /\ files \in FilesOver(SourcesOf(asset_descriptors), {1000001},
                           RunEncodedLens)
    /\ canister_assets = <<>>
    /\ \E file_capacity \in {FileCapacity, MAX_COST_SINGLE_FILE_MB},
          net_capacity \in {1, NetCapacity} :
          Entered(file_capacity, net_capacity)
    /\ probe = NoProbe

\* The executor polls whatever is ready, and every call returns in the end.
SpecLive == InitLive /\ [][Next]_vars /\ WF_vars(Next)

\* make_project_assets has returned and every asset task has ended.
Returns == run.pc \in {"ok", "err"} /\ \A a \in Assets : Ended(tasks[a])

\* C21: the run does not deadlock although an asset task waits for network
\* permits while it holds its file permits: with a file semaphore that
\* holds any one file's cost and a network semaphore of at least one
\* permit, every call returning in the end, under fair scheduling every
\* asset task ends and make_project_assets returns; until then some step
\* can always be taken.
C21_Returns ==
    /\ [](run.pc = "running" => ENABLED Next)
    /\ <>Returns

\* A task holds its file permits and waits for a network permit, while
\* another task waits for file permits.
C21_Witness ==
    \E a \in Assets : \E b \in Assets :
        /\ tasks[a].held > 0
        /\ CallsIn(tasks[a], "wait") > 0
        /\ semaphores.create_chunk.permits = 0
        /\ tasks[b].pc = "acquire"
        /\ tasks[b].permits > semaphores.file.permits

\* ------------------------------------------------------------------------
\* A dry run, then a run with an upload target on the same inputs
\* ------------------------------------------------------------------------

\* One asset of any of the sizes around the chunk boundaries, against every
\* kind of snapshot, first without an upload target.
InitDiff ==
    /\ chunk_upload_target = FALSE
    /\ asset_descriptors \in Sublists(4, 1) \ {<<>>}
    /\ files \in FilesOver(SourcesOf(asset_descriptors), AssetSizes, EncodedLens)
    /\ canister_assets \in SnapshotsOver(asset_descriptors, files, DetailsChoices)
    /\ Entered(MAX_COST_SINGLE_FILE_MB, NetCapacity)
    /\ probe = [fn |-> "dry_run", ret |-> None]

\* The dry run has returned its map: make_project_assets is called again
\* with the same descriptors and snapshot, the files being as they were,
\* and now with an upload target.
CallAgainWithTarget ==
    /\ probe.fn = "dry_run"
    /\ probe.ret = None
    /\ ~chunk_upload_target
    /\ run.pc = "ok"
    /\ probe' = [probe EXCEPT !.ret = Some(run.assets)]
    /\ chunk_upload_target' = TRUE
    /\ semaphores' = SemaphoresNew(MAX_COST_SINGLE_FILE_MB, NetCapacity)
    /\ tasks' = [a \in Assets |-> NewTask]
    /\ canister' = [chunks |-> <<>>, calls |-> 0]
    /\ calls_issued' = {}
    /\ run' = [pc |-> "running"]
    /\ UNCHANGED <<asset_descriptors, files, canister_assets>>

SpecDiff == InitDiff /\ [][Next \/ CallAgainWithTarget]_vars

\* A returned map without the chunk_ids of its encodings.
WithoutChunkIds(assets) ==
    [k \in DOMAIN assets |->
        [assets[k] EXCEPT !.encodings =
            [l \in DOMAIN @ |-> [sha256 |-> @[l].sha256,
                                 already_in_place |-> @[l].already_in_place]]]]

\* C22: on the same descriptors, files and snapshot, a dry run and a
\* successful run with an upload target return the same asset keys, the
\* same encoding labels per asset, and for every encoding the same digest
\* and the same already_in_place; the results differ in chunk_ids only.
C22_DiffIndependentOfTarget ==
    (probe.fn = "dry_run" /\ probe.ret # None /\ run.pc = "ok") =>
        LET dry == probe.ret[1]
            real == run.assets
        IN  /\ DOMAIN dry = DOMAIN real
            /\ \A k \in DOMAIN dry :
                  /\ DOMAIN dry[k].encodings = DOMAIN real[k].encodings
                  /\ \A l \in DOMAIN dry[k].encodings :
                        /\ dry[k].encodings[l].sha256
                              = real[k].encodings[l].sha256
                        /\ dry[k].encodings[l].already_in_place
                              = real[k].encodings[l].already_in_place
                        /\ dry[k].encodings[l].chunk_ids = <<>>
            /\ WithoutChunkIds(dry) = WithoutChunkIds(real)

\* Both runs returned two encodings, one in place and one not, and only
\* the second run has chunk identifiers for the one not in place.
C22_Witness ==
    /\ probe.fn = "dry_run"
    /\ probe.ret # None
    /\ run.pc = "ok"
    /\ \E k \in DOMAIN run.assets :
          \E l \in DOMAIN run.assets[k].encodings :
          \E m \in DOMAIN run.assets[k].encodings :
              /\ run.assets[k].encodings[l].already_in_place
              /\ ~run.assets[k].encodings[m].already_in_place
              /\ Len(run.assets[k].encodings[m].chunk_ids) = 2
              /\ probe.ret[1][k].encodings[m].chunk_ids = <<>>

\* ------------------------------------------------------------------------
\* Snapshots that list an encoding label more than once
\* ------------------------------------------------------------------------

\* What the canister may list for the file at `source` with a label twice:
\* the first with another digest, with none, or with the file's; the
\* other with the file's or with another.
DupChoices(source, file) ==
    LET m == DetailsMatching(source, file)
        identity == m.encodings[1]
        gzip == m.encodings[2]
        Other(l) == AssetEncodingDetails(l, Some(OtherDigest))
        Absent(l) == AssetEncodingDetails(l, None)
    IN  { AssetDetails(m.content_type,
              <<Other(CONTENT_ENCODING_IDENTITY), identity, gzip>>),
          AssetDetails(m.content_type,
              <<Absent(CONTENT_ENCODING_IDENTITY), gzip, identity>>),
          AssetDetails(m.content_type,
              <<identity, Other(CONTENT_ENCODING_IDENTITY), gzip>>),
          AssetDetails(m.content_type,
              <<Other(EncoderToString(Gzip)), identity, gzip>>),
          AssetDetails(m.content_type,
              <<Absent(EncoderToString(Gzip)), gzip, identity>>),
          AssetDetails(m.content_type,
              <<gzip, Absent(EncoderToString(Gzip)), identity>>) }

DupSizes == {0, 1, MAX_CHUNK_SIZE + 1}

\* Runs of one asset against a snapshot that has its key.
InitDup ==
    /\ chunk_upload_target \in BOOLEAN
    /\ asset_descriptors \in Sublists(4, 1) \ {<<>>}
    /\ files \in FilesOver(SourcesOf(asset_descriptors), DupSizes, EncodedLens)
    /\ canister_assets \in
          {c \in SnapshotsOver(asset_descriptors, files, DupChoices) :
              c # <<>>}
    /\ Entered(MAX_COST_SINGLE_FILE_MB, NetCapacity)
    /\ probe = NoProbe

SpecDup == InitDup /\ [][Next]_vars

\* The places where `label` is listed.
PlacesOf(listed, label) ==
    {i \in DOMAIN listed : listed[i].content_encoding = label}

\* The first place where `label` is listed, there being one.
FirstPlace(listed, label) ==
    CHOOSE i \in PlacesOf(listed, label) :
        \A j \in PlacesOf(listed, label) : i <= j

\* C23: when the snapshot's entry for an asset lists an encoding label
\* more than once, already_in_place is decided by the first listed entry
\* with the label alone: if that one has no digest or another digest,
\* already_in_place is false and, given a target, the encoding is uploaded,
\* even when a later entry with the label has the matching digest; if it
\* has the matching digest (and the content type matches) already_in_place
\* is true whatever the later entries have.
C23_FirstListedDecides ==
    \A a \in Assets : \A e \in DOMAIN tasks[a].encodings :
        LET enc == tasks[a].encodings[e]
            key == asset_descriptors[a].key
            listed == ListedFor(canister_assets, key)
            places == PlacesOf(listed, enc.content_encoding)
        IN  (enc.pc \in {"upload", "done"} /\ Cardinality(places) >= 2) =>
              LET first == listed[FirstPlace(listed, enc.content_encoding)] IN
              IF first.sha256 = enc.sha256
              THEN enc.already_in_place <=>
                      canister_assets[key].content_type
                          = MimeToString(
                                MediaTypeOf(asset_descriptors[a].source))
              ELSE /\ ~enc.already_in_place
                   /\ chunk_upload_target =>
                         /\ enc.uploaded
                         /\ enc.pc = "done" =>
                               /\ Len(enc.chunk_ids) >= 1
                               /\ CallsFor(a, enc.content_encoding) # {}

\* The first listed identity entry has another digest, a later one the
\* file's, and the identity encoding was uploaded in two chunks.
C23_Witness ==
    /\ run.pc = "ok"
    /\ chunk_upload_target
    /\ \E k \in DOMAIN run.assets :
          LET listed == ListedFor(canister_assets, k)
              identity == run.assets[k].encodings[CONTENT_ENCODING_IDENTITY]
          IN  /\ Cardinality(PlacesOf(listed, CONTENT_ENCODING_IDENTITY)) = 2
              /\ listed[1].content_encoding = CONTENT_ENCODING_IDENTITY
              /\ listed[1].sha256 = Some(OtherDigest)
              /\ listed[2].sha256 = Some(identity.sha256)
              /\ ~identity.already_in_place
              /\ Len(identity.chunk_ids) = 2

====
